---- MODULE Spec2Model ----
(***************************************************************************)
(* Talent Ops Platform API (src/main.py, src/schemas.py).                  *)
(*                                                                         *)
(* The handlers of main.py are modelled as atomic actions over a document  *)
(* store.  The store adapter (module `database`: create_document,          *)
(* get_documents, db) is not part of the sources; it is modelled from the  *)
(* adapter contract of the specification (insert assigns a fresh           *)
(* identifier; query returns up to `limit` matching records in no          *)
(* guaranteed order).                                                      *)
(*                                                                         *)
(* Encoding of values: a document or payload is a function from field      *)
(* names to values; a field whose value is None is absent from the         *)
(* function's domain (main.py reads documents only through dict.get).      *)
(* Dates are day numbers, floats that the handlers store are integers.     *)
(***************************************************************************)
EXTENDS Integers, Sequences, FiniteSets, TLC

VARIABLES
    store,      \* collection name -> sequence of documents, in insertion order
    nextId,     \* the next identifier the store will assign
    today,      \* datetime.utcnow().date()
    db,         \* TRUE iff `db is not None`
    resp,       \* the response of the last handler call
    calls,      \* number of handler calls so far
    seedRuns,   \* history: how many times seed_demo_data has run to completion
    seedResult, \* history: what the last completed seed_demo_data returned
    seederIds,  \* history: identifiers of the documents seed_demo_data inserted
    seeders,    \* per seeder process: position inside seed_demo_data
    switches,   \* number of context switches between seeder processes so far
    running,    \* the seeder process that took the last step
    text        \* the ResumeText.text a parse-text request carries

vars == <<store, nextId, today, db, resp, calls, seedRuns, seedResult,
          seederIds, seeders, switches, running, text>>

(***************************************************************************)
(* Bounds of the model.                                                    *)
(***************************************************************************)
MaxCalls == 2
MaxSwitches == 2
MaxLines == 3

Days == {1, 2}

(***************************************************************************)
(* schemas.py: one schema per model class.                                 *)
(*   required: fields declared with `...` or without default               *)
(*   optional: Optional fields defaulting to None                          *)
(*   defaults: fields with a non-None default                              *)
(*   enums:    Literal[...] fields                                         *)
(*   ranges:   Field(ge=, le=) bounds                                      *)
(*   emails:   EmailStr fields                                             *)
(***************************************************************************)
NoFields == <<>>

Schema ==
    [ User |->
        [ required |-> {"name", "email"},
          optional |-> {"department"},
          defaults |-> [role |-> "employee", is_active |-> TRUE],
          enums    |-> [role |-> {"executive", "team_lead", "employee"}],
          ranges   |-> NoFields,
          emails   |-> {"email"} ],
      Employee |->
        [ required |-> {"user_id", "employee_id", "title"},
          optional |-> {"manager_id", "team", "location", "salary"},
          defaults |-> NoFields,
          enums    |-> NoFields,
          ranges   |-> [salary |-> [ge |-> 0]],
          emails   |-> {} ],
      Team |->
        [ required |-> {"name"},
          optional |-> {"lead_user_id"},
          defaults |-> [members |-> <<>>],
          enums    |-> NoFields,
          ranges   |-> NoFields,
          emails   |-> {} ],
      Attendance |->
        [ required |-> {"user_id", "date"},
          optional |-> {"check_in", "check_out"},
          defaults |-> [status |-> "present"],
          enums    |-> [status |-> {"present", "absent", "remote", "leave"}],
          ranges   |-> NoFields,
          emails   |-> {} ],
      Leave |->
        [ required |-> {"user_id", "start_date", "end_date"},
          optional |-> {"reason"},
          defaults |-> [type |-> "annual", status |-> "pending"],
          enums    |-> [type |-> {"annual", "sick", "unpaid", "maternity",
                                  "paternity", "other"},
                        status |-> {"pending", "approved", "rejected"}],
          ranges   |-> NoFields,
          emails   |-> {} ],
      Task |->
        [ required |-> {"title", "assignee_id"},
          optional |-> {"description", "due_date"},
          defaults |-> [status |-> "todo", tags |-> <<>>],
          enums    |-> [status |-> {"todo", "in_progress", "blocked", "done"}],
          ranges   |-> NoFields,
          emails   |-> {} ],
      Timesheet |->
        [ required |-> {"user_id", "date", "hours"},
          optional |-> {"task_id", "notes"},
          defaults |-> NoFields,
          enums    |-> NoFields,
          ranges   |-> [hours |-> [ge |-> 0, le |-> 24]],
          emails   |-> {} ],
      Payroll |->
        [ required |-> {"user_id", "period_start", "period_end", "gross", "net"},
          optional |-> {},
          defaults |-> [tax |-> 0, deductions |-> 0, status |-> "pending"],
          enums    |-> [status |-> {"pending", "paid", "on_hold"}],
          ranges   |-> [gross |-> [ge |-> 0], tax |-> [ge |-> 0],
                        deductions |-> [ge |-> 0], net |-> [ge |-> 0]],
          emails   |-> {} ],
      Job |->
        [ required |-> {"title"},
          optional |-> {"department", "location", "description"},
          defaults |-> [status |-> "open"],
          enums    |-> [status |-> {"open", "paused", "closed"}],
          ranges   |-> NoFields,
          emails   |-> {} ],
      Application |->
        [ required |-> {"job_id", "name", "email"},
          optional |-> {"phone", "resume_text", "score"},
          defaults |-> [stage |-> "applied"],
          enums    |-> [stage |-> {"applied", "screen", "interview", "offer",
                                   "hired", "rejected"}],
          ranges   |-> [score |-> [ge |-> 0, le |-> 100]],
          emails   |-> {"email"} ],
      ResumeparseResult |->
        [ required |-> {"application_id"},
          optional |-> {"name", "email", "phone", "years_experience",
                        "education", "raw_summary"},
          defaults |-> [skills |-> <<>>],
          enums    |-> NoFields,
          ranges   |-> NoFields,
          emails   |-> {} ],
      Performance |->
        [ required |-> {"user_id", "period"},
          optional |-> {"rating", "feedback"},
          defaults |-> [goals |-> <<>>],
          enums    |-> NoFields,
          ranges   |-> [rating |-> [ge |-> 1, le |-> 5]],
          emails   |-> {} ],
      Announcement |->
        [ required |-> {"title", "message"},
          optional |-> {"expires_at"},
          defaults |-> [audience |-> "all", priority |-> "normal"],
          enums    |-> [audience |-> {"all", "executive", "team_lead", "employee"},
                        priority |-> {"low", "normal", "high"}],
          ranges   |-> NoFields,
          emails   |-> {} ],
      Ticket |->
        [ required |-> {"user_id", "subject", "message"},
          optional |-> {"assignee_id", "category"},
          defaults |-> [status |-> "open"],
          enums    |-> [status |-> {"open", "in_progress", "resolved", "closed"}],
          ranges   |-> NoFields,
          emails   |-> {} ],
      Notification |->
        [ required |-> {"user_id", "type", "title", "body"},
          optional |-> {},
          defaults |-> [read |-> FALSE],
          enums    |-> NoFields,
          ranges   |-> NoFields,
          emails   |-> {} ] ]

SchemaFields(cls) ==
    Schema[cls].required \cup Schema[cls].optional \cup DOMAIN Schema[cls].defaults

\* EmailStr: the addresses of the model that are well formed.
SeedEmails ==
    {"ava.patel@demo.co", "liam.chen@demo.co", "maya.ross@demo.co",
     "noah.green@demo.co", "emma.johnson@demo.co", "oliver.smith@demo.co",
     "sophia.davis@demo.co", "jack.wilson@demo.co", "mia.thompson@demo.co"}

IsEmail(e) == e \in SeedEmails \cup {"ann@x.co"}

\* Literal[...]: the value is one of the listed strings.
EnumOK(cls, f, v) ==
    f \in DOMAIN Schema[cls].enums => v \in Schema[cls].enums[f]

RangeOKNoUpper(cls, f, v) ==
    f \in DOMAIN Schema[cls].ranges => v >= Schema[cls].ranges[f].ge

\* Field(ge=, le=): inclusive bounds.
RangeOK(cls, f, v) ==
    f \in DOMAIN Schema[cls].ranges =>
        /\ v >= Schema[cls].ranges[f].ge
        /\ "le" \in DOMAIN Schema[cls].ranges[f] => v <= Schema[cls].ranges[f].le

\* cls(**payload) succeeds: every required field is given and every given
\* field of the schema passes its constraints (other keys are ignored).
Validate(cls, payload) ==
    /\ Schema[cls].required \subseteq DOMAIN payload
    /\ \A f \in DOMAIN payload \cap SchemaFields(cls) :
          /\ EnumOK(cls, f, payload[f])
          /\ RangeOK(cls, f, payload[f])
          /\ f \in Schema[cls].emails => IsEmail(payload[f])

\* The validated model instance: given fields of the schema, plus defaults.
Model(cls, payload) ==
    [f \in (DOMAIN payload \cap SchemaFields(cls)) \cup DOMAIN Schema[cls].defaults |->
        IF f \in DOMAIN payload THEN payload[f] ELSE Schema[cls].defaults[f]]

(***************************************************************************)
(* Store adapter (module `database`): modelled from the adapter contract.  *)
(***************************************************************************)
Collections ==
    {"user", "employee", "team", "attendance", "leave", "task", "timesheet",
     "payroll", "job", "application", "resumeparseresult", "performance",
     "announcement", "ticket", "notification"}

EmptyStore == [c \in Collections |-> <<>>]

\* str(ObjectId): the public form of a store identifier.
Str(oid) == ToString(oid)

\* insert(collection, document) -> id: appends the document under a fresh _id.
CreateDocument(st, coll, data, oid) ==
    [st EXCEPT ![coll] = Append(@, ("_id" :> oid) @@ data)]

\* A document matches a filter when it holds every filtered field with that value.
Matches(d, filter) ==
    \A f \in DOMAIN filter : f \in DOMAIN d /\ d[f] = filter[f]

MatchIdx(st, coll, filter) ==
    {i \in 1..Len(st[coll]) : Matches(st[coll][i], filter)}

RECURSIVE Grow(_, _)
\* The subsets of S with exactly k elements.
Grow(S, k) ==
    IF k = 0 THEN {{}}
    ELSE UNION {{T \cup {x} : T \in Grow({y \in S : y > x}, k - 1)} : x \in S}

KSubsets(S, k) ==
    LET n == Cardinality(S)
    IN  IF k >= n THEN {S}
        ELSE IF 2 * k <= n THEN Grow(S, k)
        ELSE {S \ E : E \in Grow(S, n - k)}

RECURSIVE PickFrom(_, _, _)
PickFrom(seq, I, i) ==
    IF i > Len(seq) THEN <<>>
    ELSE (IF i \in I THEN <<seq[i]>> ELSE <<>>) \o PickFrom(seq, I, i + 1)

\* query(collection, filter, limit): the possible results.  A limit of 0 stands
\* for "no limit" (None).  Which matching records a limited query returns is
\* not fixed by the contract, so every choice of min(limit, matches) is possible.
GetDocuments(st, coll, filter, limit) ==
    LET M == MatchIdx(st, coll, filter)
        k == IF limit = 0 THEN Cardinality(M) ELSE limit
    IN  {PickFrom(st[coll], I, 1) : I \in KSubsets(M, k)}

\* The whole collection (no filter, no limit).
AllDocuments(st, coll) == st[coll]

(***************************************************************************)
(* main.py: generic create and list.                                       *)
(***************************************************************************)
\* create_entity's `mapping`: entity name -> model class.
Mapping ==
    [ user |-> "User", employee |-> "Employee", team |-> "Team",
      attendance |-> "Attendance", leave |-> "Leave", task |-> "Task",
      timesheet |-> "Timesheet", payroll |-> "Payroll", job |-> "Job",
      application |-> "Application", resumeparseresult |-> "ResumeparseResult",
      performance |-> "Performance", announcement |-> "Announcement",
      ticket |-> "Ticket", notification |-> "Notification" ]

AllowedMissingOne ==
    {"user", "employee", "team", "attendance", "leave", "task", "timesheet",
     "payroll", "job", "application", "performance",
     "announcement", "ticket", "notification"}

\* list_entities' `allowed`.
Allowed ==
    {"user", "employee", "team", "attendance", "leave", "task", "timesheet",
     "payroll", "job", "application", "resumeparseresult", "performance",
     "announcement", "ticket", "notification"}

\* Entity names a request may carry: the known ones and some unknown ones.
EntityNames == Collections \cup {"widget", "User"}

\* Payloads a request may carry for an entity name.
PayloadsFor ==
    [ user |->
        { [name |-> "Ann", email |-> "ann@x.co"],
          [name |-> "Ann", email |-> "ann@x.co", role |-> "admin"],
          [name |-> "Ann", email |-> "not-an-email"],
          [name |-> "Ann"] },
      employee |->
        { [user_id |-> "u1", employee_id |-> "E1", title |-> "Dev"],
          [user_id |-> "u1", employee_id |-> "E1", title |-> "Dev", salary |-> 0],
          [user_id |-> "u1", employee_id |-> "E1", title |-> "Dev", salary |-> -1],
          [user_id |-> "u1", title |-> "Dev"] },
      team |->
        { [name |-> "Ops"], [lead_user_id |-> "u1"] },
      attendance |->
        { [user_id |-> "u1", date |-> 1],
          [user_id |-> "u1", date |-> 1, status |-> "late"] },
      leave |->
        { [user_id |-> "u1", start_date |-> 1, end_date |-> 2],
          [user_id |-> "u1", start_date |-> 1, end_date |-> 2, type |-> "study"] },
      task |->
        { [title |-> "T", assignee_id |-> "u1"],
          [title |-> "T", assignee_id |-> "u1", status |-> "done"],
          [title |-> "T"] },
      timesheet |->
        { [user_id |-> "u1", date |-> 1, hours |-> 8],
          [user_id |-> "u1", date |-> 1, hours |-> 24],
          [user_id |-> "u1", date |-> 1, hours |-> 25],
          [user_id |-> "u1", date |-> 1, hours |-> -1],
          [user_id |-> "u1", date |-> 1] },
      payroll |->
        { [user_id |-> "u1", period_start |-> 1, period_end |-> 2,
           gross |-> 100, net |-> 80],
          [user_id |-> "u1", period_start |-> 1, period_end |-> 2,
           gross |-> -1, net |-> 80],
          [user_id |-> "u1", period_start |-> 1, period_end |-> 2,
           gross |-> 100, net |-> 80, tax |-> -1],
          [user_id |-> "u1", period_start |-> 1, period_end |-> 2,
           gross |-> 100, net |-> 80, status |-> "void"] },
      job |->
        { [title |-> "Dev"], [title |-> "Dev", status |-> "closed"],
          [status |-> "open"] },
      application |->
        { [job_id |-> "j1", name |-> "Ann", email |-> "ann@x.co"],
          [job_id |-> "j1", name |-> "Ann", email |-> "ann@x.co", score |-> 100],
          [job_id |-> "j1", name |-> "Ann", email |-> "ann@x.co", score |-> 101],
          [job_id |-> "j1", name |-> "Ann", email |-> "not-an-email"] },
      resumeparseresult |->
        { [application_id |-> "a1"], [name |-> "Ann"] },
      performance |->
        { [user_id |-> "u1", period |-> "2025-Q1"],
          [user_id |-> "u1", period |-> "2025-Q1", rating |-> 5],
          [user_id |-> "u1", period |-> "2025-Q1", rating |-> 0],
          [user_id |-> "u1", period |-> "2025-Q1", rating |-> 6] },
      announcement |->
        { [title |-> "A", message |-> "m"],
          [title |-> "A", message |-> "m", priority |-> "urgent"],
          [title |-> "A"] },
      ticket |->
        { [user_id |-> "u1", subject |-> "S", message |-> "m"],
          [user_id |-> "u1", subject |-> "S", message |-> "m", status |-> "in_progress"],
          [user_id |-> "u1", subject |-> "S", message |-> "m", status |-> "new"] },
      notification |->
        { [user_id |-> "u1", type |-> "info", title |-> "N", body |-> "b"],
          [user_id |-> "u1", type |-> "info", title |-> "N"] },
      widget |-> { [name |-> "Ann", email |-> "ann@x.co"], [title |-> "Dev"] },
      User |-> { [name |-> "Ann", email |-> "ann@x.co"] } ]

\* A handler is called: the model follows a bounded number of calls.
Called ==
    /\ calls < MaxCalls
    /\ calls' = calls + 1

\* Variables no handler of main.py touches.
HistoryUnchanged == UNCHANGED <<seedRuns, seedResult, seederIds>>
OtherUnchanged == UNCHANGED <<seeders, switches, running, text>>

\* The handler raised before or instead of writing: nothing is stored.
Rejected(r) ==
    /\ resp' = r
    /\ UNCHANGED <<store, nextId>>

\* create_document(coll, data) succeeded with identifier str(nextId).
Inserted(coll, data, r) ==
    /\ store' = CreateDocument(store, coll, data, nextId)
    /\ nextId' = nextId + 1
    /\ resp' = r @@ [status |-> "ok", id |-> Str(nextId)]

\* POST /api/{entity}
create_entity(entity, payload) ==
    /\ Called
    /\ IF entity \notin DOMAIN Mapping
       THEN Rejected([op |-> "create", entity |-> entity, status |-> "unknown_entity"])
       ELSE IF ~Validate(Mapping[entity], payload)
       THEN Rejected([op |-> "create", entity |-> entity, status |-> "validation_error"])
       ELSE IF ~db
       THEN Rejected([op |-> "create", entity |-> entity, status |-> "store_error"])
       ELSE Inserted(entity, Model(Mapping[entity], payload),
                     [op |-> "create", entity |-> entity])
    /\ UNCHANGED <<today, db>>
    /\ HistoryUnchanged /\ OtherUnchanged

PublicItemDropId(d) == [f \in DOMAIN d \ {"_id"} |-> d[f]]

\* `d["id"] = str(d.pop("_id"))`
PublicItem(d) ==
    [f \in (DOMAIN d \ {"_id"}) \cup {"id"} |->
        IF f = "id" THEN Str(d["_id"]) ELSE d[f]]

PublicItems(docs) == [i \in 1..Len(docs) |-> PublicItem(docs[i])]

list_entities_popping(entity, limit) ==
    /\ Called
    /\ IF entity \notin Allowed
       THEN /\ resp' = [op |-> "list", entity |-> entity, status |-> "unknown_entity"]
            /\ UNCHANGED store
       ELSE /\ resp' = [op |-> "list", entity |-> entity, status |-> "ok",
                        limit |-> limit, items |-> PublicItems(store[entity])]
            /\ store' = [store EXCEPT ![entity] = PublicItems(store[entity])]
    /\ UNCHANGED <<nextId, today, db>>
    /\ HistoryUnchanged /\ OtherUnchanged

\* GET /api/{entity}?limit=N
list_entities(entity, limit) ==
    /\ Called
    /\ IF entity \notin Allowed
       THEN resp' = [op |-> "list", entity |-> entity, status |-> "unknown_entity"]
       ELSE IF ~db
       THEN resp' = [op |-> "list", entity |-> entity, status |-> "store_error"]
       ELSE \E docs \in GetDocuments(store, entity, NoFields, limit) :
               resp' = [op |-> "list", entity |-> entity, status |-> "ok",
                        limit |-> limit, items |-> PublicItems(docs)]
    /\ UNCHANGED <<store, nextId, today, db>>
    /\ HistoryUnchanged /\ OtherUnchanged

(***************************************************************************)
(* main.py: attendance shortcuts, announcements and tickets.               *)
(***************************************************************************)
\* datetime.utcnow().strftime("%H:%M")
NowHHMM == "08:59"

\* The optional `time` query parameter; "" stands for None (both are falsy).
TimeInputs == {"", "09:00"}

UserInputs == {"u1", "u2"}

check_in_merging(user_id, time) ==
    LET t == IF time = "" THEN NowHHMM ELSE time
        same == {i \in 1..Len(store["attendance"]) :
                    /\ store["attendance"][i]["user_id"] = user_id
                    /\ store["attendance"][i]["date"] = today}
    IN  /\ Called
        /\ db
        /\ IF same = {}
           THEN Inserted("attendance",
                         Model("Attendance", [user_id |-> user_id, date |-> today,
                                              status |-> "present", check_in |-> t]),
                         [op |-> "check_in", message |-> "Checked in"])
           ELSE LET i == CHOOSE j \in same : TRUE
                IN  /\ store' = [store EXCEPT !["attendance"][i] =
                                    ("check_in" :> t) @@ @]
                    /\ resp' = [op |-> "check_in", message |-> "Checked in",
                                status |-> "ok",
                                id |-> Str(store["attendance"][i]["_id"])]
                    /\ UNCHANGED nextId
        /\ UNCHANGED <<today, db>>
        /\ HistoryUnchanged /\ OtherUnchanged

\* POST /api/attendance/check-in
check_in(user_id, time) ==
    LET t == IF time = "" THEN NowHHMM ELSE time
        rec == Model("Attendance", [user_id |-> user_id, date |-> today,
                                    status |-> "present", check_in |-> t])
    IN  /\ Called
        /\ IF ~db
           THEN Rejected([op |-> "check_in", status |-> "store_error"])
           ELSE Inserted("attendance", rec,
                         [op |-> "check_in", message |-> "Checked in"])
        /\ UNCHANGED <<today, db>>
        /\ HistoryUnchanged /\ OtherUnchanged

\* POST /api/attendance/check-out
check_out(user_id, time) ==
    LET t == IF time = "" THEN NowHHMM ELSE time
        rec == Model("Attendance", [user_id |-> user_id, date |-> today,
                                    status |-> "present", check_out |-> t])
    IN  /\ Called
        /\ IF ~db
           THEN Rejected([op |-> "check_out", status |-> "store_error"])
           ELSE Inserted("attendance", rec,
                         [op |-> "check_out", message |-> "Checked out"])
        /\ UNCHANGED <<today, db>>
        /\ HistoryUnchanged /\ OtherUnchanged

\* POST /api/announce (the body is validated as an Announcement before the call)
announce(payload) ==
    /\ Called
    /\ IF ~Validate("Announcement", payload)
       THEN Rejected([op |-> "announce", status |-> "validation_error"])
       ELSE IF ~db
       THEN Rejected([op |-> "announce", status |-> "store_error"])
       ELSE Inserted("announcement", Model("Announcement", payload),
                     [op |-> "announce"])
    /\ UNCHANGED <<today, db>>
    /\ HistoryUnchanged /\ OtherUnchanged

\* POST /api/ticket (the body is validated as a Ticket before the call)
create_ticket(payload) ==
    /\ Called
    /\ IF ~Validate("Ticket", payload)
       THEN Rejected([op |-> "create_ticket", status |-> "validation_error"])
       ELSE IF ~db
       THEN Rejected([op |-> "create_ticket", status |-> "store_error"])
       ELSE Inserted("ticket", Model("Ticket", payload), [op |-> "create_ticket"])
    /\ UNCHANGED <<today, db>>
    /\ HistoryUnchanged /\ OtherUnchanged

\* The UTC date advances.
Tick ==
    /\ today + 1 \in Days
    /\ today' = today + 1
    /\ UNCHANGED <<store, nextId, db, resp, calls>>
    /\ HistoryUnchanged /\ OtherUnchanged

(***************************************************************************)
(* main.py: workforce insights.  Percentages are kept in hundredths.       *)
(***************************************************************************)
\* round(100 * num / den, 2), in hundredths (den > 0).
Pct100(num, den) == (2 * 10000 * num + den) \div (2 * den)

Min(a, b) == IF a <= b THEN a ELSE b
Max(a, b) == IF a >= b THEN a ELSE b

RECURSIVE SumHours(_)
\* sum(float(x.get("hours", 0)) for x in ts)
SumHours(ts) ==
    IF ts = <<>> THEN 0
    ELSE (IF "hours" \in DOMAIN Head(ts) THEN Head(ts)["hours"] ELSE 0)
         + SumHours(Tail(ts))

\* len([d for d in docs if d.get("status") in values])
CountStatus(docs, values) ==
    Cardinality({i \in 1..Len(docs) :
                    "status" \in DOMAIN docs[i] /\ docs[i]["status"] \in values})

InsightSummary(st, horizon_days) ==
    LET employees    == Len(AllDocuments(st, "employee"))
        tasks_total  == Len(AllDocuments(st, "task"))
        tasks_done   == CountStatus(AllDocuments(st, "task"), {"done"})
        open_roles   == CountStatus(AllDocuments(st, "job"), {"open"})
        tickets_open == CountStatus(AllDocuments(st, "ticket"), {"open", "in_progress"})
        total_hours  == SumHours(AllDocuments(st, "timesheet"))
        utilization  == IF employees = 0 THEN 0
                        ELSE Min(10000, Pct100(total_hours,
                                               Max(1, employees) * horizon_days * 8))
    IN  [ workforce_size |-> employees,
          task_completion_rate |-> IF tasks_total = 0 THEN 0
                                   ELSE Pct100(tasks_done, tasks_total),
          open_roles |-> open_roles,
          tickets_open |-> tickets_open,
          utilization_pct |-> utilization,
          time_horizon_days |-> horizon_days ]

\* The f-string of analytics_insights: the numbers it interpolates, in order.
Narrative(summary) ==
    << summary.workforce_size, summary.task_completion_rate,
       summary.utilization_pct, summary.open_roles, summary.tickets_open >>

HorizonInputs == {0, 1, 30}

\* POST /api/analytics/insights
analytics_insights(horizon_days) ==
    /\ Called
    /\ IF ~(horizon_days >= 1 /\ horizon_days <= 365)
       THEN resp' = [op |-> "insights", status |-> "validation_error"]
       ELSE IF ~db
       THEN resp' = [op |-> "insights", status |-> "store_error"]
       ELSE LET summary == InsightSummary(store, horizon_days)
            IN  resp' = [op |-> "insights", status |-> "ok", summary |-> summary,
                         narrative |-> Narrative(summary)]
    /\ UNCHANGED <<store, nextId, today, db>>
    /\ HistoryUnchanged /\ OtherUnchanged

(***************************************************************************)
(* main.py: parse_resume_text.  Strings are sequences of characters, so    *)
(* that splitting, stripping, searching and number parsing are computed.   *)
(***************************************************************************)
Digits == {"0", "1", "2", "3", "4", "5", "6", "7", "8", "9"}

DigitValue ==
    [ c \in Digits |->
        CASE c = "0" -> 0 [] c = "1" -> 1 [] c = "2" -> 2 [] c = "3" -> 3
          [] c = "4" -> 4 [] c = "5" -> 5 [] c = "6" -> 6 [] c = "7" -> 7
          [] c = "8" -> 8 [] c = "9" -> 9 ]

\* Characters in code point order (those the inputs of the model use).
CharOrder ==
    << "\n", " ", "+", ".",
       "0", "1", "2", "3", "4", "5", "6", "7", "8", "9", "@",
       "A", "B", "C", "D", "E", "F", "G", "H", "I", "J", "K", "L", "M",
       "N", "O", "P", "Q", "R", "S", "T", "U", "V", "W", "X", "Y", "Z",
       "a", "b", "c", "d", "e", "f", "g", "h", "i", "j", "k", "l", "m",
       "n", "o", "p", "q", "r", "s", "t", "u", "v", "w", "x", "y", "z" >>

CharRank(c) == CHOOSE i \in 1..Len(CharOrder) : CharOrder[i] = c

\* str.lower() on one character: upper case letters are 26 places below.
LowerChar(c) ==
    IF CharRank(c) >= CharRank("A") /\ CharRank(c) <= CharRank("Z")
    THEN CharOrder[CharRank(c) + 26] ELSE c

Lower(s) == [i \in 1..Len(s) |-> LowerChar(s[i])]

\* `sub in s`
Contains(s, sub) ==
    \E i \in 0..(Len(s) - Len(sub)) : SubSeq(s, i + 1, i + Len(sub)) = sub

IsSpace(c) == c = " "

RECURSIVE SplitLines(_)
\* str.splitlines()
SplitLines(s) ==
    IF s = <<>> THEN <<>>
    ELSE LET brk == {i \in 1..Len(s) : s[i] = "\n"}
         IN  IF brk = {} THEN <<s>>
             ELSE LET i == CHOOSE j \in brk : \A k \in brk : j <= k
                  IN  <<SubSeq(s, 1, i - 1)>> \o SplitLines(SubSeq(s, i + 1, Len(s)))

\* str.strip()
Strip(s) ==
    LET keep == {i \in 1..Len(s) : ~IsSpace(s[i])}
    IN  IF keep = {} THEN <<>>
        ELSE SubSeq(s, CHOOSE i \in keep : \A k \in keep : i <= k,
                       CHOOSE i \in keep : \A k \in keep : i >= k)

RECURSIVE SplitWs(_)
\* str.split(): the maximal runs of non-whitespace characters
SplitWs(s) ==
    LET t == Strip(s)
    IN  IF t = <<>> THEN <<>>
        ELSE LET sp == {i \in 1..Len(t) : IsSpace(t[i])}
             IN  IF sp = {} THEN <<t>>
                 ELSE LET i == CHOOSE j \in sp : \A k \in sp : j <= k
                      IN  <<SubSeq(t, 1, i - 1)>> \o SplitWs(SubSeq(t, i + 1, Len(t)))

\* str.replace(c, "")
Remove(s, c) == SelectSeq(s, LAMBDA x : x # c)

\* str.isdigit()
IsDigit(s) == s # <<>> /\ \A i \in 1..Len(s) : s[i] \in Digits

RECURSIVE DigitsValue(_)
DigitsValue(s) ==
    IF s = <<>> THEN 0
    ELSE 10 * DigitsValue(SubSeq(s, 1, Len(s) - 1)) + DigitValue[s[Len(s)]]

RECURSIVE Normal(_)
\* <<n, k>> stands for n / 10^k; trailing zeros of the fraction are dropped.
Normal(v) ==
    IF v[2] > 0 /\ v[1] % 10 = 0 THEN Normal(<<v[1] \div 10, v[2] - 1>>) ELSE v

\* float() raised.
ValueError == <<"ValueError">>
Raised(v) == Len(v) = 1

\* float(s) for s made of digits and dots: it raises with two or more dots.
ParseFloat(s) ==
    LET dots == {i \in 1..Len(s) : s[i] = "."}
    IN  IF Cardinality(dots) > 1 THEN ValueError
        ELSE IF dots = {} THEN <<DigitsValue(s), 0>>
        ELSE LET d == CHOOSE i \in dots : TRUE
             IN  Normal(<<DigitsValue(Remove(s, ".")), Len(s) - d>>)

\* `if token.replace("+", "").replace(".", "").isdigit()`
Numeric(token) == IsDigit(Remove(Remove(token, "+"), "."))

\* The value the inner loop assigns from line l: <<>> when no token is numeric.
LineYears(l) ==
    LET toks == SplitWs(l)
        hits == {i \in 1..Len(toks) : Numeric(toks[i])}
    IN  IF hits = {} THEN <<>>
        ELSE ParseFloat(Remove(toks[CHOOSE i \in hits : \A k \in hits : i <= k], "+"))

\* `if years:` on a float or None
Truthy(years) == Len(years) = 2 /\ years[1] # 0

YearsWord == <<"y", "e", "a", "r", "s">>

RECURSIVE ScanYearsFirstLineOnly(_, _)
ScanYearsFirstLineOnly(lines, years) ==
    IF lines = <<>> THEN years
    ELSE IF Contains(Lower(Head(lines)), YearsWord)
         THEN LineYears(Head(lines))
         ELSE ScanYearsFirstLineOnly(Tail(lines), years)

RECURSIVE ScanYears(_, _)
\* The `for l in lines` loop over the remaining lines, `years` so far.
ScanYears(lines, years) ==
    IF lines = <<>> THEN years
    ELSE IF Contains(Lower(Head(lines)), YearsWord)
         THEN LET got == LineYears(Head(lines))
                  now == IF got = <<>> THEN years ELSE got
              IN  IF Raised(now) THEN now
                  ELSE IF Truthy(now) THEN now
                  ELSE ScanYears(Tail(lines), now)
         ELSE ScanYears(Tail(lines), years)

Keywords ==
    << <<"p", "y", "t", "h", "o", "n">>,
       <<"j", "a", "v", "a", "s", "c", "r", "i", "p", "t">>,
       <<"r", "e", "a", "c", "t">>,
       <<"n", "o", "d", "e">>,
       <<"a", "w", "s">>,
       <<"d", "o", "c", "k", "e", "r">>,
       <<"k", "u", "b", "e", "r", "n", "e", "t", "e", "s">>,
       <<"s", "q", "l">>,
       <<"f", "a", "s", "t", "a", "p", "i">>,
       <<"d", "j", "a", "n", "g", "o">>,
       <<"j", "a", "v", "a">>,
       <<"c", "+", "+">>,
       <<"m", "l">>,
       <<"n", "l", "p">>,
       <<"g", "i", "t">>,
       <<"l", "i", "n", "u", "x">> >>

LexLess(a, b) ==
    \E i \in 1..(Len(a) + 1) :
        /\ \A k \in 1..(i - 1) : k <= Len(b) /\ a[k] = b[k]
        /\ i <= Len(b)
        /\ (i = Len(a) + 1 \/ CharRank(a[i]) < CharRank(b[i]))

\* sorted(list(set(skills)))
SortedSet(S) ==
    CHOOSE q \in [1..Cardinality(S) -> S] :
        \A i, j \in 1..Cardinality(S) : i < j => LexLess(q[i], q[j])

NonEmptyLines(t) ==
    LET stripped == [i \in 1..Len(SplitLines(t)) |-> Strip(SplitLines(t)[i])]
    IN  SelectSeq(stripped, LAMBDA l : l # <<>>)

\* The body of parse_resume_text; absent values (None) are <<>>.
ParseResume(t) ==
    LET lines   == NonEmptyLines(t)
        lowered == Lower(t)
        mails   == {i \in 1..Len(lines) :
                       Contains(lines[i], <<"@">>) /\ Contains(lines[i], <<".">>)}
        skills  == {Keywords[i] : i \in {j \in 1..Len(Keywords) :
                                            Contains(lowered, Keywords[j])}}
        years   == ScanYears(lines, <<>>)
    IN  IF Raised(years)
        THEN [op |-> "parse_text", status |-> "error"]
        ELSE [ op |-> "parse_text", status |-> "ok",
               name |-> IF lines = <<>> THEN <<>> ELSE lines[1],
               email |-> IF mails = {} THEN <<>>
                         ELSE lines[CHOOSE i \in mails : \A k \in mails : i <= k],
               skills |-> SortedSet(skills),
               years_experience |-> years,
               raw_summary |-> SubSeq(lines, 1, Min(10, Len(lines))) ]

\* POST /api/ats/parse-text
parse_resume_text(t) ==
    /\ Called
    /\ resp' = ParseResume(t)
    /\ UNCHANGED <<store, nextId, today, db>>
    /\ HistoryUnchanged /\ OtherUnchanged

SampleText ==
    <<"J", "a", "n", "e", " ", "D", "o", "e", "\n", "j", "a", "n", "e", "@", "x", ".", "c", "o", "m", "\n", "5", " ", "y", "e", "a", "r", "s", " ", "e", "x", "p", "e", "r", "i", "e", "n", "c", "e", " ", "i", "n", " ", "p", "y", "t", "h", "o", "n", " ", "a", "n", "d", " ", "d", "o", "c", "k", "e", "r">>

(***************************************************************************)
(* main.py: demo data seeding.                                             *)
(***************************************************************************)
\* The _get_or_create_user calls of seed_demo_data, in order.
SeedUsers ==
    << [name |-> "Ava Patel", email |-> "ava.patel@demo.co",
        role |-> "executive", department |-> "Executive"],
       [name |-> "Liam Chen", email |-> "liam.chen@demo.co",
        role |-> "executive", department |-> "Executive"],
       [name |-> "Maya Ross", email |-> "maya.ross@demo.co",
        role |-> "team_lead", department |-> "Engineering"],
       [name |-> "Noah Green", email |-> "noah.green@demo.co",
        role |-> "team_lead", department |-> "Design"],
       [name |-> "Emma Johnson", email |-> "emma.johnson@demo.co",
        role |-> "employee", department |-> "Engineering"],
       [name |-> "Oliver Smith", email |-> "oliver.smith@demo.co",
        role |-> "employee", department |-> "Engineering"],
       [name |-> "Sophia Davis", email |-> "sophia.davis@demo.co",
        role |-> "employee", department |-> "Engineering"],
       [name |-> "Jack Wilson", email |-> "jack.wilson@demo.co",
        role |-> "employee", department |-> "Design"],
       [name |-> "Mia Thompson", email |-> "mia.thompson@demo.co",
        role |-> "employee", department |-> "Design"] >>

\* The _ensure_employee calls, in order; `user` and `manager` are positions in
\* SeedUsers (ceo 1, vpops 2, eng_lead 3, design_lead 4, ...), manager 0 is None.
SeedEmployees ==
    << [user |-> 1, employee_id |-> "EMP1001", title |-> "Chief Executive Officer",
        manager |-> 0, team |-> "Executive", location |-> "NYC", salary |-> 300000],
       [user |-> 2, employee_id |-> "EMP1002", title |-> "VP, Operations",
        manager |-> 1, team |-> "Executive", location |-> "NYC", salary |-> 220000],
       [user |-> 3, employee_id |-> "EMP2001", title |-> "Engineering Lead",
        manager |-> 2, team |-> "Engineering", location |-> "Remote", salary |-> 180000],
       [user |-> 4, employee_id |-> "EMP3001", title |-> "Design Lead",
        manager |-> 2, team |-> "Design", location |-> "Remote", salary |-> 170000],
       [user |-> 5, employee_id |-> "EMP2002", title |-> "Senior Software Engineer",
        manager |-> 3, team |-> "Engineering", location |-> "Remote", salary |-> 150000],
       [user |-> 6, employee_id |-> "EMP2003", title |-> "Software Engineer",
        manager |-> 3, team |-> "Engineering", location |-> "Remote", salary |-> 130000],
       [user |-> 7, employee_id |-> "EMP2004", title |-> "QA Engineer",
        manager |-> 3, team |-> "Engineering", location |-> "Remote", salary |-> 120000],
       [user |-> 8, employee_id |-> "EMP3002", title |-> "Product Designer",
        manager |-> 4, team |-> "Design", location |-> "Remote", salary |-> 125000],
       [user |-> 9, employee_id |-> "EMP3003", title |-> "UX Researcher",
        manager |-> 4, team |-> "Design", location |-> "Remote", salary |-> 115000] >>

\* The _ensure_team calls, in order.
SeedTeams ==
    << [name |-> "Engineering", lead |-> 3, members |-> <<3, 5, 6, 7>>],
       [name |-> "Design", lead |-> 4, members |-> <<4, 8, 9>>],
       [name |-> "Executive", lead |-> 1, members |-> <<1, 2>>] >>

NumUsers == Len(SeedUsers)
NumEmployees == Len(SeedEmployees)
NumSteps == Len(SeedUsers) + Len(SeedEmployees) + Len(SeedTeams)

\* A seeder at the start of seed_demo_data: `step` is the helper call it is in,
\* `phase` the store call of that helper that comes next, `uid` the user
\* identifiers obtained so far (ceo_id, vpops_id, ...).
SeederStart == [step |-> 1, phase |-> "find", uid |-> <<>>]
SeederIdle == [step |-> 0, phase |-> "idle", uid |-> <<>>]

\* The collection and the filter of the _find_one of helper call `step`.
StepCollection(step) ==
    IF step <= NumUsers THEN "user"
    ELSE IF step <= NumUsers + NumEmployees THEN "employee" ELSE "team"

StepFilter(step, uid) ==
    IF step <= NumUsers THEN [email |-> SeedUsers[step].email]
    ELSE IF step <= NumUsers + NumEmployees
    THEN [user_id |-> uid[SeedEmployees[step - NumUsers].user]]
    ELSE [name |-> SeedTeams[step - NumUsers - NumEmployees].name]

StepClass(step) ==
    IF step <= NumUsers THEN "User"
    ELSE IF step <= NumUsers + NumEmployees THEN "Employee" ELSE "Team"

StepPayloadNamesForIds(step, uid) ==
    IF step <= NumUsers THEN SeedUsers[step]
    ELSE IF step <= NumUsers + NumEmployees
    THEN LET e == SeedEmployees[step - NumUsers]
         IN  [user_id |-> uid[e.user], employee_id |-> e.employee_id,
              title |-> e.title, team |-> e.team, location |-> e.location,
              salary |-> e.salary]
             @@ (IF e.manager = 0 THEN NoFields
                 ELSE [manager_id |-> SeedUsers[e.manager].name])
    ELSE LET t == SeedTeams[step - NumUsers - NumEmployees]
         IN  [name |-> t.name, lead_user_id |-> SeedUsers[t.lead].name,
              members |-> [i \in 1..Len(t.members) |-> SeedUsers[t.members[i]].name]]

\* The keyword arguments helper call `step` builds its model from.
StepPayload(step, uid) ==
    IF step <= NumUsers THEN SeedUsers[step]
    ELSE IF step <= NumUsers + NumEmployees
    THEN LET e == SeedEmployees[step - NumUsers]
         IN  [user_id |-> uid[e.user], employee_id |-> e.employee_id,
              title |-> e.title, team |-> e.team, location |-> e.location,
              salary |-> e.salary]
             @@ (IF e.manager = 0 THEN NoFields
                 ELSE [manager_id |-> uid[e.manager]])
    ELSE LET t == SeedTeams[step - NumUsers - NumEmployees]
         IN  [name |-> t.name, lead_user_id |-> uid[t.lead],
              members |-> [i \in 1..Len(t.members) |-> uid[t.members[i]]]]

\* The helper returned identifier `id`: seed_demo_data keeps the identifiers of
\* users only and goes on to its next helper call.
Advance(loc, id) ==
    [step |-> loc.step + 1, phase |-> "find",
     uid |-> IF loc.step <= NumUsers THEN Append(loc.uid, id) ELSE loc.uid]

\* A run of the seeder: the store it works on, the next identifier, its
\* position, the identifiers it inserted, and whether a call raised.
RunState(st, nid, loc) ==
    [st |-> st, nid |-> nid, loc |-> loc, ins |-> {}, status |-> "running"]

FindResultAlwaysMiss(rs, docs) == [rs EXCEPT !.loc.phase = "insert"]

\* `existing = _find_one(...)`: with a hit the helper returns its identifier,
\* without one it goes on to create the record.
FindResult(rs, docs) ==
    IF docs # <<>>
    THEN [rs EXCEPT !.loc = Advance(rs.loc, Str(docs[1]["_id"]))]
    ELSE [rs EXCEPT !.loc.phase = "insert"]

InsertResultRecheck(rs) ==
    IF MatchIdx(rs.st, StepCollection(rs.loc.step),
                StepFilter(rs.loc.step, rs.loc.uid)) # {}
    THEN LET i == CHOOSE k \in MatchIdx(rs.st, StepCollection(rs.loc.step),
                                        StepFilter(rs.loc.step, rs.loc.uid)) : TRUE
         IN  [rs EXCEPT !.loc = Advance(rs.loc,
                                  Str(rs.st[StepCollection(rs.loc.step)][i]["_id"]))]
    ELSE [rs EXCEPT !.st = CreateDocument(rs.st, StepCollection(rs.loc.step),
                                Model(StepClass(rs.loc.step),
                                      StepPayload(rs.loc.step, rs.loc.uid)),
                                rs.nid),
                    !.nid = rs.nid + 1,
                    !.ins = rs.ins \cup {rs.nid},
                    !.loc = Advance(rs.loc, Str(rs.nid))]

\* `return create_document(collection, model)`; constructing the model raises
\* when the arguments do not validate.
InsertResult(rs) ==
    IF ~Validate(StepClass(rs.loc.step), StepPayload(rs.loc.step, rs.loc.uid))
    THEN [rs EXCEPT !.status = "raised"]
    ELSE [rs EXCEPT !.st = CreateDocument(rs.st, StepCollection(rs.loc.step),
                                Model(StepClass(rs.loc.step),
                                      StepPayload(rs.loc.step, rs.loc.uid)),
                                rs.nid),
                    !.nid = rs.nid + 1,
                    !.ins = rs.ins \cup {rs.nid},
                    !.loc = Advance(rs.loc, Str(rs.nid))]

\* The possible outcomes of the next store call of a run.
MicroStep(rs) ==
    IF rs.loc.phase = "find"
    THEN {FindResult(rs, docs) :
            docs \in GetDocuments(rs.st, StepCollection(rs.loc.step),
                                  StepFilter(rs.loc.step, rs.loc.uid), 1)}
    ELSE {InsertResult(rs)}

\* A store call that raises: the call of helper `step` in phase `phase`.
NoFault == [step |-> 0, phase |-> "none"]
CheckFault == [step |-> 0, phase |-> "find"]
SeedFaults == {[step |-> i, phase |-> ph] : i \in 1..NumSteps, ph \in {"find", "insert"}}

RECURSIVE SeedRun(_, _)
\* seed_demo_data from run state rs to its end; the store call `fault` raises.
SeedRun(rs, fault) ==
    IF rs.status = "raised" THEN {rs}
    ELSE IF rs.loc.step > NumSteps THEN {[rs EXCEPT !.status = "done"]}
    ELSE IF fault.step = rs.loc.step /\ fault.phase = rs.loc.phase
    THEN {[rs EXCEPT !.status = "raised"]}
    ELSE UNION {SeedRun(n, fault) : n \in MicroStep(rs)}

\* The dictionary seed_demo_data returns.
SeedReturn(uid) ==
    [ executives |-> <<uid[1], uid[2]>>,
      team_leads |-> <<uid[3], uid[4]>>,
      employees  |-> <<uid[5], uid[6], uid[7], uid[8], uid[9]>>,
      teams      |-> <<"Engineering", "Design", "Executive">> ]

\* The effect of one call of seed_demo_data that ended as run state `out`.
SeedEffect(out) ==
    /\ store' = out.st
    /\ nextId' = out.nid
    /\ seederIds' = seederIds \cup out.ins
    /\ IF out.status = "done"
       THEN seedRuns' = seedRuns + 1 /\ seedResult' = SeedReturn(out.loc.uid)
       ELSE UNCHANGED <<seedRuns, seedResult>>

\* POST /api/seed/demo
seed_demo_endpoint(fault) ==
    /\ Called
    /\ IF ~db
       THEN /\ resp' = [op |-> "seed", status |-> "store_unavailable"]
            /\ UNCHANGED <<store, nextId, seedRuns, seedResult, seederIds>>
       ELSE \E out \in SeedRun(RunState(store, nextId, SeederStart), fault) :
                  /\ SeedEffect(out)
                  /\ resp' = IF out.status = "done"
                             THEN [op |-> "seed", status |-> "ok",
                                   created |-> SeedReturn(out.loc.uid)]
                             ELSE [op |-> "seed", status |-> "store_error"]
    /\ UNCHANGED <<today, db>>
    /\ OtherUnchanged

StartupResponsePropagating(seeding, raised) ==
    [op |-> "startup", status |-> IF raised THEN "failed" ELSE "ok",
     seeding |-> seeding, raised |-> raised]

\* What startup reports: `except Exception: pass` swallows whatever was raised.
StartupResponse(seeding, raised) ==
    [op |-> "startup", status |-> "ok", seeding |-> seeding, raised |-> raised]

\* @app.on_event("startup") _auto_seed_if_empty
auto_seed_if_empty(fault) ==
    /\ Called
    /\ IF ~db
       THEN /\ resp' = StartupResponse(FALSE, FALSE)
            /\ UNCHANGED <<store, nextId, seedRuns, seedResult, seederIds>>
       ELSE IF fault = CheckFault
       THEN /\ resp' = StartupResponse(FALSE, TRUE)
            /\ UNCHANGED <<store, nextId, seedRuns, seedResult, seederIds>>
       ELSE \E existing_users \in GetDocuments(store, "user", NoFields, 1) :
               IF existing_users # <<>>
               THEN /\ resp' = StartupResponse(FALSE, FALSE)
                    /\ UNCHANGED <<store, nextId, seedRuns, seedResult, seederIds>>
               ELSE \E out \in SeedRun(RunState(store, nextId, SeederStart), fault) :
                          /\ SeedEffect(out)
                          /\ resp' = StartupResponse(TRUE, out.status = "raised")
    /\ UNCHANGED <<today, db>>
    /\ OtherUnchanged

(***************************************************************************)
(* Concurrent seeders: each store call of seed_demo_data is one step.      *)
(***************************************************************************)
Procs == {1, 2}

\* Seeder process p makes its next store call.
SeederStep(p) ==
    /\ seeders[p].step \in 1..NumSteps
    /\ running \in {0, p} \/ switches < MaxSwitches
    /\ \E out \in MicroStep(RunState(store, nextId, seeders[p])) :
          /\ store' = out.st
          /\ nextId' = out.nid
          /\ seederIds' = seederIds \cup out.ins
          /\ seeders' = [seeders EXCEPT ![p] = out.loc]
    /\ switches' = IF running \in {0, p} THEN switches ELSE switches + 1
    /\ running' = p
    /\ UNCHANGED <<today, db, resp, calls, seedRuns, seedResult, text>>

(***************************************************************************)
(* Specifications.                                                         *)
(***************************************************************************)
NoResponse == [op |-> "none", status |-> "none"]

InitCommon ==
    /\ today = 1
    /\ resp = NoResponse
    /\ calls = 0
    /\ seedRuns = 0
    /\ seedResult = <<>>
    /\ seederIds = {}
    /\ switches = 0
    /\ running = 0

\* The sequential service on an empty store.
Init ==
    /\ InitCommon
    /\ store = EmptyStore
    /\ nextId = 1
    /\ db = TRUE
    /\ seeders = [p \in Procs |-> SeederIdle]
    /\ text = <<>>

ListLimits == {2, 50}

Next ==
    \/ \E e \in EntityNames : \E p \in PayloadsFor[e] : create_entity(e, p)
    \/ \E e \in EntityNames : \E l \in ListLimits : list_entities(e, l)
    \/ \E u \in UserInputs : \E t \in TimeInputs : check_in(u, t)
    \/ \E u \in UserInputs : \E t \in TimeInputs : check_out(u, t)
    \/ \E p \in PayloadsFor["announcement"] : announce(p)
    \/ \E p \in PayloadsFor["ticket"] : create_ticket(p)
    \/ \E h \in HorizonInputs : analytics_insights(h)
    \/ parse_resume_text(SampleText)
    \/ seed_demo_endpoint(NoFault)
    \/ auto_seed_if_empty(NoFault)
    \/ Tick

Spec == Init /\ [][Next]_vars

\* list_entities' default for `limit`.
DefaultLimit == 50

\* A payload of the model that validates for the entity name.
ValidPayload(e) == CHOOSE p \in PayloadsFor[e] : Validate(Mapping[e], p)

\* A store whose collection `coll` already holds n records.
Prefilled(coll, n) ==
    [EmptyStore EXCEPT ![coll] =
        [i \in 1..n |-> ("_id" :> i) @@ Model(Mapping[coll], ValidPayload(coll))]]

PrefilledCollections == Collections
PrefillSizes == {0, DefaultLimit - 1, DefaultLimit}

\* Generic create and list on a store that may already hold many records.
InitList ==
    /\ InitCommon
    /\ db = TRUE
    /\ seeders = [p \in Procs |-> SeederIdle]
    /\ text = <<>>
    /\ \E c \in PrefilledCollections : \E n \in PrefillSizes :
          /\ store = Prefilled(c, n)
          /\ nextId = n + 1

NextList ==
    \/ \E e \in EntityNames : create_entity(e, IF e \in Collections
                                               THEN ValidPayload(e)
                                               ELSE NoFields)
    \/ \E e \in EntityNames : list_entities(e, DefaultLimit)

SpecList == InitList /\ [][NextList]_vars

\* Stores the seeder may find: empty, or with users created through the
\* generic create, some of them under a seed email.
UserDoc(oid, name, email) == ("_id" :> oid) @@ Model("User", [name |-> name, email |-> email])

SeedInitStores ==
    { <<>>,
      <<UserDoc(1, "Ann", "ann@x.co")>>,
      <<UserDoc(1, "Ava", "ava.patel@demo.co")>>,
      <<UserDoc(1, "Ava", "ava.patel@demo.co"), UserDoc(2, "Ava P.", "ava.patel@demo.co")>>,
      <<UserDoc(1, "Mia", "mia.thompson@demo.co"), UserDoc(2, "Mia T.", "mia.thompson@demo.co")>> }

InitSeed ==
    /\ InitCommon
    /\ db \in BOOLEAN
    /\ seeders = [p \in Procs |-> SeederIdle]
    /\ text = <<>>
    /\ \E users \in SeedInitStores :
          /\ store = [EmptyStore EXCEPT !["user"] = users]
          /\ nextId = Len(users) + 1

\* The store calls that are made to raise.
FaultInputs == {NoFault, CheckFault} \cup SeedFaults

SeedCollidingUsers ==
    { [name |-> "Ava", email |-> "ava.patel@demo.co"],
      [name |-> "Ann", email |-> "ann@x.co"] }

NextSeed ==
    \/ \E f \in FaultInputs : seed_demo_endpoint(f)
    \/ \E f \in FaultInputs : auto_seed_if_empty(f)
    \/ \E p \in SeedCollidingUsers : create_entity("user", p)

SpecSeed == InitSeed /\ [][NextSeed]_vars

\* Two seeder invocations on an empty store, interleaved at their store calls.
InitConc ==
    /\ InitCommon
    /\ store = EmptyStore
    /\ nextId = 1
    /\ db = TRUE
    /\ seeders = [p \in Procs |-> SeederStart]
    /\ text = <<>>

NextConc == \E p \in Procs : SeederStep(p)

SpecConc == InitConc /\ [][NextConc]_vars

\* parse_resume_text on texts of up to MaxLines lines.
LineInputs ==
    { <<>>,
      <<"Y", "e", "a", "r", "s">>,
      <<"5", " ", "Y", "e", "a", "r", "s">>,
      <<" ", "7", "+", " ", "y", "e", "a", "r", "s", " ">>,
      <<"0", " ", "y", "e", "a", "r", "s">>,
      <<"0", ".", "0", " ", "y", "E", "A", "R", "S">>,
      <<"1", ".", "2", ".", "3", " ", "y", "e", "a", "r", "s">>,
      <<"5">>,
      <<"e", "x", "p", " ", "3", ".", " ", "y", "e", "a", "r", "s">>,
      <<"y", "e", "a", "r", "s", " ", "2", " ", "4">> }

RECURSIVE Join(_, _)
\* sep.join(parts)
Join(parts, sep) ==
    IF parts = <<>> THEN <<>>
    ELSE IF Len(parts) = 1 THEN parts[1]
    ELSE parts[1] \o sep \o Join(Tail(parts), sep)

TextInputs ==
    UNION {{Join(ls, <<"\n">>) : ls \in [1..n -> LineInputs]} : n \in 1..MaxLines}

InitParse ==
    /\ InitCommon
    /\ store = EmptyStore
    /\ nextId = 1
    /\ db = TRUE
    /\ seeders = [p \in Procs |-> SeederIdle]
    /\ text \in TextInputs

NextParse == resp = NoResponse /\ parse_resume_text(text)

SpecParse == InitParse /\ [][NextParse]_vars

(***************************************************************************)
(* Properties.                                                             *)
(***************************************************************************)
\* The fifteen entity kinds of the data model, by their lowercase names.
SpecKinds ==
    {"user", "employee", "team", "attendance", "leave", "task", "timesheet",
     "payroll", "job", "application", "resumeparseresult", "performance",
     "announcement", "ticket", "notification"}

\* The step is a call of a handler.
HandlerStep == calls' = calls + 1

HasItemWithId(items, id) ==
    \E i \in 1..Len(items) : "id" \in DOMAIN items[i] /\ items[i]["id"] = id

\* A create with a valid payload answers with a non-empty identifier.
CreateReturnsId ==
    (HandlerStep /\ resp'.op = "create" /\ resp'.entity \in SpecKinds)
        => (resp'.status = "ok" /\ resp'.id # "")

\* The step is a default-limit list of the kind whose create just succeeded.
ListAfterCreate ==
    /\ HandlerStep
    /\ resp.op = "create" /\ resp.status = "ok"
    /\ resp'.op = "list" /\ resp'.status = "ok"
    /\ resp'.entity = resp.entity
    /\ resp'.limit = DefaultLimit

\* C1 as stated: for each of the 15 kinds and in any store state, a create with
\* a valid payload returns a non-empty identifier, and the list of that kind
\* that follows (default limit 50) holds a record whose id is that identifier.
C1_CreateThenListAnyStore ==
    [][ /\ CreateReturnsId
        /\ ListAfterCreate => HasItemWithId(resp'.items, resp.id) ]_vars

\* C1 amended: the same, for a collection that holds at most 50 records once
\* the new record is in it; with more, the limited list may leave it out.
C1_CreateThenListWithinLimit ==
    [][ /\ CreateReturnsId
        /\ (ListAfterCreate /\ Len(store[resp.entity]) <= DefaultLimit)
              => HasItemWithId(resp'.items, resp.id) ]_vars

\* A list of exactly 50 records that holds the record created just before.
C1_Witness ==
    /\ calls = 2
    /\ resp.op = "list" /\ resp.status = "ok"
    /\ Len(resp.items) = DefaultLimit
    /\ Len(store[resp.entity]) = DefaultLimit
    /\ HasItemWithId(resp.items, Str(nextId - 1))

\* C2: create and list with a name outside the 15 known lowercase names answer
\* UnknownEntity (404) whatever the payload and leave the store as it was, and
\* with one of the 15 names neither of them answers UnknownEntity.
C2_UnknownEntityRejected ==
    [][ (HandlerStep /\ resp'.op \in {"create", "list"}) =>
            IF resp'.entity \in SpecKinds
            THEN resp'.status # "unknown_entity"
            ELSE resp'.status = "unknown_entity" /\ store' = store ]_vars

\* A list of "User" (capital) was refused while the store holds a record.
C2_Witness ==
    /\ resp.op = "list" /\ resp.entity = "User" /\ resp.status = "unknown_entity"
    /\ store # EmptyStore

\* The constraints of the data model on a stored record of a kind.
Has(d, fields) == fields \subseteq DOMAIN d
Within(d, f, lo, hi) == d[f] >= lo /\ d[f] <= hi
OptWithin(d, f, lo, hi) == f \in DOMAIN d => Within(d, f, lo, hi)
AtLeast(d, f, lo) == d[f] >= lo

SatisfiesDataModel(kind, d) ==
    CASE kind = "user" ->
            /\ Has(d, {"name", "email", "role", "is_active"})
            /\ d["role"] \in {"executive", "team_lead", "employee"}
      [] kind = "employee" ->
            /\ Has(d, {"user_id", "employee_id", "title"})
            /\ "salary" \in DOMAIN d => AtLeast(d, "salary", 0)
      [] kind = "team" -> Has(d, {"name", "members"})
      [] kind = "attendance" ->
            /\ Has(d, {"user_id", "date", "status"})
            /\ d["status"] \in {"present", "absent", "remote", "leave"}
      [] kind = "leave" ->
            /\ Has(d, {"user_id", "start_date", "end_date", "type", "status"})
            /\ d["status"] \in {"pending", "approved", "rejected"}
      [] kind = "task" ->
            /\ Has(d, {"title", "assignee_id", "status", "tags"})
            /\ d["status"] \in {"todo", "in_progress", "blocked", "done"}
      [] kind = "timesheet" ->
            /\ Has(d, {"user_id", "date", "hours"})
            /\ Within(d, "hours", 0, 24)
      [] kind = "payroll" ->
            /\ Has(d, {"user_id", "period_start", "period_end", "gross", "tax",
                       "deductions", "net", "status"})
            /\ AtLeast(d, "gross", 0) /\ AtLeast(d, "tax", 0)
            /\ AtLeast(d, "deductions", 0) /\ AtLeast(d, "net", 0)
      [] kind = "job" ->
            /\ Has(d, {"title", "status"})
            /\ d["status"] \in {"open", "paused", "closed"}
      [] kind = "application" ->
            /\ Has(d, {"job_id", "name", "email", "stage"})
            /\ OptWithin(d, "score", 0, 100)
      [] kind = "resumeparseresult" -> Has(d, {"application_id", "skills"})
      [] kind = "performance" ->
            /\ Has(d, {"user_id", "period", "goals"})
            /\ OptWithin(d, "rating", 1, 5)
      [] kind = "announcement" ->
            Has(d, {"title", "message", "audience", "priority"})
      [] kind = "ticket" ->
            Has(d, {"user_id", "subject", "message", "status"})
      [] kind = "notification" ->
            Has(d, {"user_id", "type", "title", "body", "read"})

StoredRecordsValid ==
    \A kind \in SpecKinds : \A i \in 1..Len(store[kind]) :
        SatisfiesDataModel(kind, store[kind][i])

C4_CheckInOutAlwaysInsert ==
    [][ (HandlerStep /\ resp'.op \in {"check_in", "check_out"}) =>
            LET old == store["attendance"]
                new == store'["attendance"]
                rec == new[Len(new)]
            IN  /\ Len(new) = Len(old) + 1
                /\ SubSeq(new, 1, Len(old)) = old
                /\ \A c \in SpecKinds \ {"attendance"} : store'[c] = store[c]
                /\ rec["status"] = "present"
                /\ rec["date"] = today
                /\ ("check_in" \in DOMAIN rec) = (resp'.op = "check_in")
                /\ ("check_out" \in DOMAIN rec) = (resp'.op = "check_out")
                /\ \A i \in 1..Len(old) : old[i]["_id"] # rec["_id"]
                /\ resp'.id = Str(rec["_id"]) ]_vars

\* A check-in and then a check-out of one user on one day: two records.
C4_Witness ==
    /\ resp.op = "check_out"
    /\ Len(store["attendance"]) = 2
    /\ LET a == store["attendance"][1]
           b == store["attendance"][2]
       IN  /\ a["user_id"] = b["user_id"] /\ a["date"] = b["date"]
           /\ a["_id"] # b["_id"]
           /\ DOMAIN a \cap {"check_in", "check_out"} = {"check_in"}
           /\ DOMAIN b \cap {"check_in", "check_out"} = {"check_out"}

\* The step is a call of seed_demo_data (by the endpoint or by startup).
SeederCalled ==
    /\ HandlerStep
    /\ resp'.op = "seed" \/ (resp'.op = "startup" /\ resp'.seeding)
    /\ resp'.status # "store_unavailable"

SeederCompleted == seedRuns' = seedRuns + 1

\* C5 as stated: from any store state, once seed_demo_data has run to
\* completion, a further run inserts nothing and returns the same identifiers.
C5_RerunInsertsNothing ==
    [][ (SeederCalled /\ seedRuns >= 1) =>
            /\ store' = store
            /\ SeederCompleted => seedResult' = seedResult ]_vars

\* No two records of the collection that the seeder inserted agree on the field.
NoSeederDuplicates(coll, f) ==
    \A i, j \in 1..Len(store[coll]) :
        (/\ i < j
         /\ store[coll][i]["_id"] \in seederIds
         /\ store[coll][j]["_id"] \in seederIds)
            => store[coll][i][f] # store[coll][j][f]

\* Each seed email is held by at most one User record.
SeedEmailsUnique ==
    \A i, j \in 1..Len(store["user"]) :
        (i < j /\ store["user"][i]["email"] \in SeedEmails)
            => store["user"][i]["email"] # store["user"][j]["email"]

\* C5 amended: while no two User records share a seed email, a run after a
\* completed run inserts nothing and returns the same identifiers; and the
\* seeder never inserts two Users with one email, two Employees with one
\* user_id or two Teams with one name.
C5_RerunInsertsNothingWhenEmailsUnique ==
    /\ [](/\ NoSeederDuplicates("user", "email")
          /\ NoSeederDuplicates("employee", "user_id")
          /\ NoSeederDuplicates("team", "name"))
    /\ [][ (SeederCalled /\ seedRuns >= 1 /\ SeedEmailsUnique) =>
              /\ store' = store
              /\ SeederCompleted => seedResult' = seedResult ]_vars

\* The seeder has completed twice.
C5_Witness ==
    /\ seedRuns = 2
    /\ resp.op = "seed" /\ resp.status = "ok"
    /\ resp.created = seedResult
    /\ SeedEmailsUnique

\* C6: whatever the operation, every record of the store is still there with
\* the same field values afterwards; list, insights and parse-text leave the
\* store as it was.
C6_AppendOnly ==
    [][ /\ \A c \in SpecKinds : \A i \in 1..Len(store[c]) :
              \E j \in 1..Len(store'[c]) : store'[c][j] = store[c][i]
        /\ (HandlerStep /\ resp'.op \in {"list", "insights", "parse_text"})
              => store' = store ]_vars

\* The seeder ran on a store that held a user, and the user is still there.
C6_Witness ==
    /\ calls = 2
    /\ resp.op = "seed" /\ resp.status = "ok"
    /\ Len(store["user"]) = NumUsers + 1
    /\ store["user"][1]["email"] = "ann@x.co"

\* C7: startup always ends well; it calls the seeder exactly when the store is
\* there, the look at the User collection does not fail and finds no record;
\* otherwise it leaves the store as it was.
C7_StartupSeedsOnlyWhenEmptyAndNeverFails ==
    /\ [](resp.op = "startup" => resp.status = "ok")
    /\ [][ (HandlerStep /\ resp'.op = "startup") =>
              /\ resp'.seeding => (db /\ store["user"] = <<>>)
              /\ (db /\ store["user"] = <<>> /\ ~resp'.raised) => resp'.seeding
              /\ ~resp'.seeding => store' = store
              /\ store["user"] # <<>> => store' = store ]_vars

\* Startup seeding failed partway and startup still ended well.
C7_Witness ==
    /\ resp.op = "startup" /\ resp.status = "ok"
    /\ resp.seeding /\ resp.raised
    /\ Len(store["user"]) = NumUsers
    /\ Len(store["employee"]) \in 1..(NumEmployees - 1)

\* Both seeders have inserted a User under one seed email.
DuplicateSeedUser ==
    \E i, j \in 1..Len(store["user"]) :
        /\ i < j
        /\ store["user"][i]["email"] = store["user"][j]["email"]
        /\ store["user"][i]["email"] \in SeedEmails

\* C8: nothing coordinates concurrent seeders: a seeder whose lookup found no
\* record goes on to insert one, whatever has been inserted since the lookup.
C8_InsertAfterMissIsUnconditional ==
    [][ \A p \in Procs :
            (seeders[p].phase = "insert" /\ seeders'[p] # seeders[p]) =>
                \E c \in {"user", "employee", "team"} :
                    /\ Len(store'[c]) = Len(store[c]) + 1
                    /\ Str(store'[c][Len(store'[c])]["_id"]) \notin
                          {Str(store[c][i]["_id"]) : i \in 1..Len(store[c])} ]_vars

\* Two User records share one seed email.
C8_Witness == DuplicateSeedUser

DuplicateSeedEmployee ==
    \E i, j \in 1..Len(store["employee"]) :
        i < j /\ store["employee"][i]["user_id"] = store["employee"][j]["user_id"]

DuplicateSeedTeam ==
    \E i, j \in 1..Len(store["team"]) :
        i < j /\ store["team"][i]["name"] = store["team"][j]["name"]

\* The lines of the text that hold "years", by position.
YearsLines == {i \in 1..Len(NonEmptyLines(text)) :
                  Contains(Lower(NonEmptyLines(text)[i]), YearsWord)}

FirstOf(S) == CHOOSE i \in S : \A k \in S : i <= k

\* C9 as stated: years_experience is decided by the first line holding "years"
\* alone: the number of its first numeric token, or nothing without one.
C9_FirstYearsLineDecides ==
    (resp.op = "parse_text" /\ resp.status = "ok") =>
        resp.years_experience =
            IF YearsLines = {} THEN <<>>
            ELSE LineYears(NonEmptyLines(text)[FirstOf(YearsLines)])

\* The "years" lines whose first numeric token is a non-zero number, is zero,
\* or does not parse.
NonZeroLines == {i \in YearsLines : Len(LineYears(NonEmptyLines(text)[i])) = 2
                                    /\ LineYears(NonEmptyLines(text)[i])[1] # 0}
ZeroLines == {i \in YearsLines : Len(LineYears(NonEmptyLines(text)[i])) = 2
                                 /\ LineYears(NonEmptyLines(text)[i])[1] = 0}
BadLines == {i \in YearsLines : Len(LineYears(NonEmptyLines(text)[i])) = 1}

\* C9 amended: the scan stops at the first "years" line whose first numeric
\* token parses to a non-zero number, and that number is the result; "years"
\* lines without a numeric token or with one that parses to zero do not stop
\* it (without a non-zero line the result is zero if some line gave zero, and
\* nothing otherwise); a numeric token that does not parse, on a line the scan
\* reaches, fails the request.
C9_FirstNonZeroYearsLineDecides ==
    resp.op = "parse_text" =>
        LET reached == IF NonZeroLines = {} THEN YearsLines
                       ELSE {i \in YearsLines : i <= FirstOf(NonZeroLines)}
        IN  IF BadLines \cap reached # {} THEN resp.status = "error"
            ELSE /\ resp.status = "ok"
                 /\ resp.years_experience =
                        IF NonZeroLines # {}
                        THEN LineYears(NonEmptyLines(text)[FirstOf(NonZeroLines)])
                        ELSE IF ZeroLines # {} THEN <<0, 0>> ELSE <<>>

\* The first "years" line has no numeric token and a later one gives 5.
C9_Witness ==
    /\ resp.op = "parse_text" /\ resp.status = "ok"
    /\ resp.years_experience = <<5, 0>>
    /\ YearsLines # {}
    /\ LineYears(NonEmptyLines(text)[FirstOf(YearsLines)]) = <<>>

\* What the seeder leaves on an empty store.
UserIdsOf(st) == {Str(st["user"][i]["_id"]) : i \in 1..Len(st["user"])}

RoleCount(st, role) ==
    Cardinality({i \in 1..Len(st["user"]) : st["user"][i]["role"] = role})

RoleOfUser(st, uid) ==
    LET i == CHOOSE k \in 1..Len(st["user"]) : Str(st["user"][k]["_id"]) = uid
    IN  st["user"][i]["role"]

SeededOrganization(st) ==
    /\ Len(st["user"]) = 9 /\ Len(st["employee"]) = 9 /\ Len(st["team"]) = 3
    /\ RoleCount(st, "executive") = 2
    /\ RoleCount(st, "team_lead") = 2
    /\ RoleCount(st, "employee") = 5
    /\ \A i \in 1..Len(st["employee"]) :
          LET e == st["employee"][i]
          IN  /\ e["user_id"] \in UserIdsOf(st)
              /\ "manager_id" \in DOMAIN e =>
                    /\ e["manager_id"] \in UserIdsOf(st)
                    /\ RoleOfUser(st, e["manager_id"]) =
                          IF RoleOfUser(st, e["user_id"]) = "employee"
                          THEN "team_lead" ELSE "executive"
              /\ "manager_id" \notin DOMAIN e =>
                    RoleOfUser(st, e["user_id"]) = "executive"
    /\ \A i \in 1..Len(st["team"]) :
          LET t == st["team"][i]
          IN  /\ t["lead_user_id"] \in UserIdsOf(st)
              /\ \A k \in 1..Len(t["members"]) : t["members"][k] \in UserIdsOf(st)

\* C10: a seeder run that completes on an empty store leaves exactly 9 User,
\* 9 Employee and 3 Team records, the three-level organization, and every
\* reference it wrote is the identifier of a User record.
C10_SeededOrganizationResolves ==
    [][ (SeederCalled /\ SeederCompleted /\ store = EmptyStore)
            => SeededOrganization(store') ]_vars

\* The seeder has completed once, from the empty store.
C10_Witness ==
    /\ calls = 1 /\ seedRuns = 1
    /\ Cardinality(seederIds) = NumSteps
    /\ nextId = NumSteps + 1
    /\ Len(store["user"]) = NumUsers

====
